---- MODULE Spec2Model ----
(***************************************************************************)
(* The platform-update (Pix donation) flow of the Header component,        *)
(* frontend/src/components/Header.tsx: the component's useState fields,    *)
(* the click and change handlers, the charge request and its continuation, *)
(* and the status poll (setInterval callback, its continuation, and the    *)
(* five-minute setTimeout that clears the interval).                       *)
(*                                                                         *)
(* JavaScript runs one callback at a time, so every action below is one    *)
(* callback run to its next await (or to its end).  React state set by a   *)
(* callback is what the next callback's render sees.                       *)
(***************************************************************************)
EXTENDS Integers, Sequences, FiniteSets, TLC

VARIABLES
    currentUserId,              \* line 41: userId prop || localStorage userId || ''
    isUpdating,                 \* line 26
    showUpdateModal,            \* line 27
    updateQrCode,               \* line 28
    updateQrCodeBase64,         \* line 29
    updateTransactionId,        \* line 30
    updateExpiresAt,            \* line 31
    payerEmail,                 \* line 34
    payerFirstName,             \* line 35
    payerLastName,              \* line 36
    payerIdentificationType,    \* line 37
    payerIdentificationNumber,  \* line 38, a sequence of one-character strings
    chargeInFlight,             \* charge requests awaiting their response (line 113)
    intervals,                  \* the timers pollUpdateStatus created, in creation order
    notice,                     \* what this step passed to showNotification, or NoNotice
    sent                        \* the request this step handed to authenticatedFetch, or NoRequest

charge == <<updateQrCode, updateQrCodeBase64, updateTransactionId, updateExpiresAt>>
payer  == <<payerEmail, payerFirstName, payerLastName,
            payerIdentificationType, payerIdentificationNumber>>
vars   == <<currentUserId, isUpdating, showUpdateModal, charge, payer,
            chargeInFlight, intervals, notice, sent>>

----------------------------------------------------------------------------
(* Bounds of the model.                                                    *)

\* Charges the backend creates in one run, hence intervals ever started.
MaxCharges == 2
\* Status fetches of one interval awaiting their response at once: a tick
\* finds at most MaxInflight - 1 earlier fetches unanswered.
MaxInflight == 2
\* Charge requests in flight at once when the handler is called directly.
MaxPending == 2

----------------------------------------------------------------------------
(* Values.                                                                 *)

Null   == "<null>"        \* JavaScript null (useState<string | null>(null))
Absent == "<undefined>"   \* a property the JSON body does not have

\* JavaScript truthiness of a string | null | undefined value.
Truthy(v) == v \notin {Null, Absent, ""}

\* a ?? b in place of a || b: only null and undefined give way to b.
OrElse_NullishOnly(a, b) == IF a \in {Null, Absent} THEN b ELSE a

\* a || b on such values.
OrElse(a, b) == IF Truthy(a) THEN a ELSE b

\* t(key) of react-i18next: the text of a translation key.
T(key) == "t:" \o key

UserIds   == {"", "u1"}
UserNames == {"guest", "ana"}      \* displayUsername; "guest" is t('common.guest')
Texts     == {"", "a"}             \* what an <input> may hold
IdTypes   == {"CPF", "CNPJ"}       \* the <option>s of lines 383-384
Digits    == {"0", "1", "2", "3", "4", "5", "6", "7", "8", "9"}

\* Identification numbers typed into the form: nothing, no digit at all,
\* and digits among punctuation.
IdInputs == {<<>>, <<"-", "a">>, <<"1", ".", "2", "-">>}

\* replace(/\D/, ''), without the g flag: only the first non-digit is dropped.
StripNonDigits_FirstOnly(s) ==
    IF \A k \in DOMAIN s : s[k] \in Digits THEN s
    ELSE LET k == CHOOSE j \in DOMAIN s :
                    s[j] \notin Digits /\ \A h \in 1..(j - 1) : s[h] \in Digits
         IN SubSeq(s, 1, k - 1) \o SubSeq(s, k + 1, Len(s))

\* String.prototype.replace(/\D/g, ''): drop every character that is no digit.
StripNonDigits(s) == SelectSeq(s, LAMBDA c : c \in Digits)

NoNotice == [severity |-> "none", text |-> "none"]
Notice(text, severity) == [severity |-> severity, text |-> text]

NoPayer == [email |-> Absent, firstName |-> Absent, lastName |-> Absent,
            type |-> Absent, number |-> <<>>]
NoRequest == [kind |-> "none", txId |-> Absent, payer |-> NoPayer]

TxId(k) == "tx" \o ToString(k)     \* the k-th transaction id the backend issues

----------------------------------------------------------------------------
(* Initial state: the useState initial values, and whichever user the      *)
(* component is mounted for.  The id stays what it is while the component  *)
(* is mounted: logging out leaves the page (lines 53-64).                  *)

Init ==
    /\ currentUserId \in UserIds
    /\ isUpdating = FALSE
    /\ showUpdateModal = FALSE
    /\ updateQrCode = Null
    /\ updateQrCodeBase64 = Null
    /\ updateTransactionId = Null
    /\ updateExpiresAt = Null
    /\ payerEmail = ""
    /\ payerFirstName = ""
    /\ payerLastName = ""
    /\ payerIdentificationType = "CPF"
    /\ payerIdentificationNumber = <<>>
    /\ chargeInFlight = 0
    /\ intervals = <<>>
    /\ notice = NoNotice
    /\ sent = NoRequest

Quiet == notice' = NoNotice /\ sent' = NoRequest

----------------------------------------------------------------------------
(* What is rendered (lines 204-423).                                       *)

\* Line 282: the modal shows the payer form when updateQrCode is falsy,
\* the QR view otherwise; line 264: only while showUpdateModal.
FormVisible == showUpdateModal /\ ~Truthy(updateQrCode)

\* SubmitDisabled with the isUpdating test of line 406 left out.
SubmitDisabled_IgnoringBusy ==
    \/ payerEmail = ""
    \/ payerFirstName = ""
    \/ payerLastName = ""
    \/ payerIdentificationNumber = <<>>

\* Lines 405-411: the disabled attribute of the submit button.
SubmitDisabled ==
    \/ isUpdating
    \/ payerEmail = ""
    \/ payerFirstName = ""
    \/ payerLastName = ""
    \/ payerIdentificationNumber = <<>>

\* Lines 228-231: the update button is rendered for a named user with an id,
\* and is disabled while isUpdating.
UpdateButtonEnabled ==
    /\ \E name \in UserNames : name # "guest"
    /\ currentUserId # ""
    /\ ~isUpdating

----------------------------------------------------------------------------
(* handleUpdatePlatform, lines 77-91.                                      *)

\* handleUpdatePlatform issuing the charge request itself when no code is
\* stored yet.
handleUpdatePlatform_RequestsCharge ==
    /\ IF currentUserId = ""
       THEN /\ notice' = Notice(T("header.updateLoginRequired"), "error")
            /\ sent' = NoRequest
            /\ UNCHANGED <<showUpdateModal, isUpdating, chargeInFlight>>
       ELSE /\ notice' = NoNotice
            /\ showUpdateModal' = TRUE
            /\ IF Truthy(updateQrCode)
               THEN /\ sent' = NoRequest
                    /\ UNCHANGED <<isUpdating, chargeInFlight>>
               ELSE /\ sent' = [NoRequest EXCEPT !.kind = "charge"]
                    /\ isUpdating' = TRUE
                    /\ chargeInFlight' = chargeInFlight + 1
    /\ UNCHANGED <<currentUserId, charge, payer, intervals>>

handleUpdatePlatform ==
    /\ IF currentUserId = ""
       THEN /\ notice' = Notice(T("header.updateLoginRequired"), "error")
            /\ UNCHANGED showUpdateModal
       ELSE /\ notice' = NoNotice
            /\ showUpdateModal' = TRUE     \* lines 85 and 90: both branches open the modal
    /\ sent' = NoRequest
    /\ UNCHANGED <<currentUserId, isUpdating, charge, payer, chargeInFlight, intervals>>

----------------------------------------------------------------------------
(* handleSubmitUpdate up to its await, lines 93-126.                       *)

\* PayerIncomplete with the payerLastName test of line 100 left out.
PayerIncomplete_WithoutLastName == payerEmail = "" \/ payerFirstName = ""

\* Line 100.
PayerIncomplete == payerEmail = "" \/ payerFirstName = "" \/ payerLastName = ""

\* Line 105.
IdentificationMissing == payerIdentificationNumber = <<>>

\* Lines 115-125: the body of the charge request.
ChargeRequest ==
    [kind  |-> "charge",
     txId  |-> Absent,
     payer |-> [email     |-> payerEmail,
                firstName |-> payerFirstName,
                lastName  |-> payerLastName,
                type      |-> payerIdentificationType,
                number    |-> StripNonDigits(payerIdentificationNumber)]]

\* Refuse with the setIsUpdating(true) of line 110 moved above the checks.
Refuse_LeavesBusy(key) ==
    /\ notice' = Notice(T(key), "error")
    /\ sent' = NoRequest
    /\ isUpdating' = TRUE
    /\ UNCHANGED chargeInFlight

\* An early return of lines 94-108: a notice and nothing else.
Refuse(key) ==
    /\ notice' = Notice(T(key), "error")
    /\ sent' = NoRequest
    /\ UNCHANGED <<isUpdating, chargeInFlight>>

handleSubmitUpdate ==
    /\ IF currentUserId = "" THEN Refuse("header.updateLoginRequired")
       ELSE IF PayerIncomplete THEN Refuse("wallet.fillPayerInfo")
       ELSE IF IdentificationMissing THEN Refuse("wallet.enterIdentification")
       ELSE /\ isUpdating' = TRUE                       \* line 110
            /\ chargeInFlight' = chargeInFlight + 1     \* line 113
            /\ sent' = ChargeRequest
            /\ notice' = NoNotice
    /\ UNCHANGED <<currentUserId, showUpdateModal, charge, payer, intervals>>

----------------------------------------------------------------------------
(* pollUpdateStatus, lines 164-202: one setInterval and one setTimeout.    *)

\* The timer pair pollUpdateStatus(txId) registers: the setInterval of line
\* 165 and the setTimeout of line 201.
pollUpdateStatus(txId) ==
    [txId     |-> txId,
     cleared  |-> "no",      \* which clearInterval call stopped the interval, if any
     ticked   |-> FALSE,     \* the interval's callback has run at least once
     inflight |-> 0]         \* status fetches awaiting their response

\* The interval still fires.
Active(iv) == iv.cleared = "no"

\* clearInterval(interval), reached from `by`: a no-op on an interval
\* already cleared.
clearInterval(iv, by) == [iv EXCEPT !.cleared = IF Active(iv) THEN by ELSE @]

----------------------------------------------------------------------------
(* handleSubmitUpdate after its await, lines 128-154.                      *)

\* What authenticatedFetch and response.json() may yield for the charge
\* request: the fetch rejects, or answers with a status and a body that is
\* no JSON, JSON null, or an object.  Of the object's properties only those
\* the branch for that status reads are varied.
ChargeResponse(net, status, json, error, qrCode) ==
    [net |-> net, status |-> status, json |-> json, error |-> error, qrCode |-> qrCode]

ChargeResponses ==
    {ChargeResponse("rejected", 0, "invalid", Absent, Absent)}
    \cup {ChargeResponse("answered", st, js, Absent, Absent) :
            st \in {200, 400, 503}, js \in {"invalid", "null"}}
    \cup {ChargeResponse("answered", 503, "object", e, Absent) : e \in {Absent, "denied"}}
    \cup {ChargeResponse("answered", 400, "object", e, Absent) : e \in {Absent, "", "denied"}}
    \cup {ChargeResponse("answered", 200, "object", Absent, q) : q \in {"", "pix"}}

ResponseOk(resp) == resp.status \in 200..299      \* Response.ok

\* Which exit of lines 111-154 the response takes.
ChargeOutcome(resp) ==
    IF resp.net = "rejected" \/ resp.json = "invalid" THEN "caught"   \* lines 113, 128 throw
    ELSE IF resp.status = 503 THEN "unavailable"                      \* line 130
    ELSE IF ~ResponseOk(resp) THEN
            IF resp.json = "null" THEN "caught" ELSE "rejected"       \* line 137, data.error
    ELSE IF resp.json = "null" THEN "caught"                          \* line 142, data.qrCode
    ELSE "created"

\* ChargeCreated with the pollUpdateStatus call of line 149 left out.
ChargeCreated_WithoutPolling(resp) ==
    LET txId == TxId(Len(intervals) + 1) IN
    /\ updateQrCode' = resp.qrCode
    /\ updateQrCodeBase64' = "img:" \o txId
    /\ updateTransactionId' = txId
    /\ updateExpiresAt' = "exp:" \o txId
    /\ notice' = Notice(T("header.updateQrCodeGenerated"), "success")
    /\ UNCHANGED intervals

\* Lines 142-149.
ChargeCreated(resp) ==
    LET txId == TxId(Len(intervals) + 1) IN
    /\ updateQrCode' = resp.qrCode
    /\ updateQrCodeBase64' = "img:" \o txId
    /\ updateTransactionId' = txId
    /\ updateExpiresAt' = "exp:" \o txId
    /\ notice' = Notice(T("header.updateQrCodeGenerated"), "success")
    /\ intervals' = Append(intervals, pollUpdateStatus(txId))

handleSubmitUpdateResume(resp) ==
    /\ chargeInFlight > 0
    /\ ChargeOutcome(resp) = "created" => Len(intervals) < MaxCharges
    /\ chargeInFlight' = chargeInFlight - 1
    /\ isUpdating' = FALSE                               \* lines 132, 138, 153
    /\ sent' = NoRequest
    /\ CASE ChargeOutcome(resp) = "caught" ->
              /\ notice' = Notice(T("header.updateFailed"), "error")        \* line 151
              /\ UNCHANGED <<charge, intervals>>
         [] ChargeOutcome(resp) = "unavailable" ->
              /\ notice' = Notice(T("wallet.pixNotConfigured"), "info")     \* line 131
              /\ UNCHANGED <<charge, intervals>>
         [] ChargeOutcome(resp) = "rejected" ->
              /\ notice' = Notice(OrElse(resp.error, T("header.updateFailed")), "error")
              /\ UNCHANGED <<charge, intervals>>
         [] ChargeOutcome(resp) = "created" -> ChargeCreated(resp)
    /\ UNCHANGED <<currentUserId, showUpdateModal, payer>>

----------------------------------------------------------------------------
(* The interval callback, lines 165-198, and the ceiling, line 201.        *)

\* Lines 165-169: a tick starts one status fetch for the interval's txId.
\* Ticks are 3 s apart and a fetch may take longer, so fetches overlap.
pollTick(i) ==
    /\ i \in DOMAIN intervals
    /\ Active(intervals[i])
    /\ intervals[i].inflight < MaxInflight
    /\ intervals' = [intervals EXCEPT ![i].ticked = TRUE, ![i].inflight = @ + 1]
    /\ sent' = [kind |-> "status", txId |-> intervals[i].txId, payer |-> NoPayer]
    /\ notice' = NoNotice
    /\ UNCHANGED <<currentUserId, isUpdating, showUpdateModal, charge, payer, chargeInFlight>>

\* What the status fetch may yield: the fetch rejects, or answers; a body
\* is read only from a response that is ok.
PollResponse(net, ok, json, status, errorMessage) ==
    [net |-> net, ok |-> ok, json |-> json, status |-> status,
     errorMessage |-> errorMessage]

PollResponses ==
    {PollResponse("rejected", FALSE, "invalid", Absent, Absent),
     PollResponse("answered", FALSE, "object", "completed", Absent),
     PollResponse("answered", TRUE, "invalid", Absent, Absent),
     PollResponse("answered", TRUE, "null", Absent, Absent)}
    \cup {PollResponse("answered", TRUE, "object", st, Absent) :
            st \in {"completed", "pending", Absent}}
    \cup {PollResponse("answered", TRUE, "object", "failed", m) :
            m \in {Absent, "", "declined"}}

\* PollOutcome with the response.ok test of line 170 left out.
PollOutcome_WithoutOkTest(resp) ==
    IF resp.net = "rejected" THEN "caught"
    ELSE IF resp.json # "object" THEN "caught"
    ELSE IF resp.status = "completed" THEN "completed"
    ELSE IF resp.status = "failed" THEN "failed"
    ELSE "ignored"

\* Which exit of lines 166-197 the response takes.
PollOutcome(resp) ==
    IF resp.net = "rejected" THEN "caught"            \* line 167 throws
    ELSE IF ~resp.ok THEN "ignored"                   \* line 170
    ELSE IF resp.json # "object" THEN "caught"        \* lines 171, 172 throw
    ELSE IF resp.status = "completed" THEN "completed"
    ELSE IF resp.status = "failed" THEN "failed"
    ELSE "ignored"

\* Lines 176-179 and 189-192.
ClearCharge ==
    /\ updateQrCode' = Null
    /\ updateQrCodeBase64' = Null
    /\ updateTransactionId' = Null
    /\ updateExpiresAt' = Null

\* Lines 173-184.
CompletedBranch(i) ==
    /\ intervals' = [intervals EXCEPT
                       ![i] = [clearInterval(@, "completed") EXCEPT
                                 !.inflight = @ - 1]]
    /\ notice' = Notice(T("header.updateCompleted"), "success")
    /\ showUpdateModal' = FALSE
    /\ ClearCharge
    /\ payerEmail' = ""
    /\ payerFirstName' = ""
    /\ payerLastName' = ""
    /\ payerIdentificationNumber' = <<>>
    /\ UNCHANGED payerIdentificationType

\* FailedBranch with the clearInterval of line 186 left out.
FailedBranch_KeepsPolling(i, resp) ==
    /\ intervals' = [intervals EXCEPT ![i].inflight = @ - 1]
    /\ notice' = Notice(OrElse(resp.errorMessage, T("header.updateFailed")), "error")
    /\ showUpdateModal' = FALSE
    /\ ClearCharge
    /\ UNCHANGED payer

\* Lines 186-192.
FailedBranch(i, resp) ==
    /\ intervals' = [intervals EXCEPT
                       ![i] = [clearInterval(@, "failed") EXCEPT
                                 !.inflight = @ - 1]]
    /\ notice' = Notice(OrElse(resp.errorMessage, T("header.updateFailed")), "error")
    /\ showUpdateModal' = FALSE
    /\ ClearCharge
    /\ UNCHANGED payer

\* Lines 170, 193-197: nothing but console.error.
IgnoredBranch(i) ==
    /\ intervals' = [intervals EXCEPT ![i].inflight = @ - 1]
    /\ notice' = NoNotice
    /\ UNCHANGED <<showUpdateModal, charge, payer>>

pollTickResume(i, resp) ==
    /\ i \in DOMAIN intervals
    /\ intervals[i].inflight > 0
    /\ sent' = NoRequest
    /\ CASE PollOutcome(resp) = "completed" -> CompletedBranch(i)
         [] PollOutcome(resp) = "failed" -> FailedBranch(i, resp)
         [] OTHER -> IgnoredBranch(i)
    /\ UNCHANGED <<currentUserId, isUpdating, chargeInFlight>>

\* pollCeiling with a callback that clears nothing.
pollCeiling_ClearsNothing(i) ==
    /\ i \in DOMAIN intervals
    /\ Active(intervals[i])
    /\ intervals[i].ticked
    /\ Quiet
    /\ UNCHANGED <<currentUserId, isUpdating, showUpdateModal, charge, payer,
                   chargeInFlight, intervals>>

\* Line 201: the setTimeout callback.  It is due 300 s after the interval
\* was set, so it runs after the interval's first tick (due after 3 s).  On
\* an interval that a terminal status has cleared it changes nothing, and
\* is a stuttering step.
pollCeiling(i) ==
    /\ i \in DOMAIN intervals
    /\ Active(intervals[i])
    /\ intervals[i].ticked
    /\ intervals' = [intervals EXCEPT ![i] = clearInterval(@, "ceiling")]
    /\ Quiet
    /\ UNCHANGED <<currentUserId, isUpdating, showUpdateModal, charge, payer, chargeInFlight>>

----------------------------------------------------------------------------
(* The user, through what is rendered.                                     *)

\* Line 230.
ClickUpdatePlatform == UpdateButtonEnabled /\ handleUpdatePlatform

\* Line 404.
ClickSubmitUpdate == FormVisible /\ ~SubmitDisabled /\ handleSubmitUpdate

\* CloseModal with a clearInterval for every running interval added.
CloseModal_StopsPolling ==
    /\ showUpdateModal
    /\ showUpdateModal' = FALSE
    /\ IF Truthy(updateQrCode) THEN ClearCharge ELSE UNCHANGED charge
    /\ intervals' = [i \in DOMAIN intervals |-> clearInterval(intervals[i], "closed")]
    /\ Quiet
    /\ UNCHANGED <<currentUserId, isUpdating, payer, chargeInFlight>>

\* Lines 268-276: the modal's close button.
CloseModal ==
    /\ showUpdateModal
    /\ showUpdateModal' = FALSE
    /\ IF Truthy(updateQrCode) THEN ClearCharge ELSE UNCHANGED charge
    /\ Quiet
    /\ UNCHANGED <<currentUserId, isUpdating, payer, chargeInFlight, intervals>>

Typing == Quiet /\ UNCHANGED <<currentUserId, isUpdating, showUpdateModal, charge,
                               chargeInFlight, intervals>>

\* Line 366.
ChangePayerEmail(v) ==
    /\ FormVisible /\ payerEmail' = v /\ Typing
    /\ UNCHANGED <<payerFirstName, payerLastName, payerIdentificationType,
                   payerIdentificationNumber>>
\* Line 338.
ChangePayerFirstName(v) ==
    /\ FormVisible /\ payerFirstName' = v /\ Typing
    /\ UNCHANGED <<payerEmail, payerLastName, payerIdentificationType,
                   payerIdentificationNumber>>
\* Line 351.
ChangePayerLastName(v) ==
    /\ FormVisible /\ payerLastName' = v /\ Typing
    /\ UNCHANGED <<payerEmail, payerFirstName, payerIdentificationType,
                   payerIdentificationNumber>>
\* Line 380.
ChangePayerIdentificationType(v) ==
    /\ FormVisible /\ payerIdentificationType' = v /\ Typing
    /\ UNCHANGED <<payerEmail, payerFirstName, payerLastName,
                   payerIdentificationNumber>>
\* Line 394.
ChangePayerIdentificationNumber(v) ==
    /\ FormVisible /\ payerIdentificationNumber' = v /\ Typing
    /\ UNCHANGED <<payerEmail, payerFirstName, payerLastName,
                   payerIdentificationType>>

----------------------------------------------------------------------------
(* Spec: the component driven through its rendered controls.               *)

Next ==
    \/ ClickUpdatePlatform
    \/ ClickSubmitUpdate
    \/ CloseModal
    \/ \E v \in Texts : ChangePayerEmail(v)
    \/ \E v \in Texts : ChangePayerFirstName(v)
    \/ \E v \in Texts : ChangePayerLastName(v)
    \/ \E v \in IdTypes : ChangePayerIdentificationType(v)
    \/ \E v \in IdInputs : ChangePayerIdentificationNumber(v)
    \/ \E resp \in ChargeResponses : handleSubmitUpdateResume(resp)
    \/ \E i \in 1..MaxCharges : pollTick(i)
    \/ \E i \in 1..MaxCharges, resp \in PollResponses : pollTickResume(i, resp)
    \/ \E i \in 1..MaxCharges : pollCeiling(i)

Spec == Init /\ [][Next]_vars

(* OpsSpec: as Spec, and the two handlers are also called as operations,   *)
(* whatever is rendered or disabled.                                       *)

CallHandleUpdatePlatform == handleUpdatePlatform

CallHandleSubmitUpdate == chargeInFlight < MaxPending /\ handleSubmitUpdate

NextOps ==
    \/ Next
    \/ CallHandleUpdatePlatform
    \/ CallHandleSubmitUpdate

OpsSpec == Init /\ [][NextOps]_vars

(* FairSpec: Spec, with every timer callback that is due eventually run.   *)

FairSpec ==
    /\ Spec
    /\ \A i \in 1..MaxCharges : WF_vars(pollTick(i)) /\ WF_vars(pollCeiling(i))

----------------------------------------------------------------------------
(* Vocabulary of the properties.                                           *)

ChargeAbsent == charge = <<Null, Null, Null, Null>>

\* The payer state as useState creates it (lines 34-38).
PayerCleared == payer = <<"", "", "", "CPF", <<>> >>

ActiveIntervals == {i \in DOMAIN intervals : Active(intervals[i])}

\* A payer input with one of the four required fields empty.
SomeRequiredFieldEmpty ==
    \/ payerEmail = ""
    \/ payerFirstName = ""
    \/ payerLastName = ""
    \/ payerIdentificationNumber = <<>>

ValidationNotices ==
    {Notice(T("wallet.fillPayerInfo"), "error"),
     Notice(T("wallet.enterIdentification"), "error")}

LoginNotice == Notice(T("header.updateLoginRequired"), "error")

\* Status responses by what the backend said.
SaysCompleted(r) == r.net = "answered" /\ r.ok /\ r.json = "object" /\ r.status = "completed"
SaysFailed(r)    == r.net = "answered" /\ r.ok /\ r.json = "object" /\ r.status = "failed"

\* The step takes one status response of interval i off the wire.
AnswersFetchOf(i) ==
    /\ i \in DOMAIN intervals
    /\ intervals'[i].inflight < intervals[i].inflight

----------------------------------------------------------------------------
(* C1: in every reachable state at most one poll interval is active.       *)
C1_AtMostOneActiveInterval == Cardinality(ActiveIntervals) <= 1

(* C2: at most one charge request is in flight at any time, and while one  *)
(* is in flight isUpdating is true.                                        *)
C2_OneChargeRequestInFlight ==
    /\ chargeInFlight <= 1
    /\ chargeInFlight = 1 => isUpdating

\* A request is in flight while the form is shown, filled in well enough to
\* be submitted again.
C2_Witness ==
    /\ chargeInFlight = 1
    /\ FormVisible
    /\ ~SomeRequiredFieldEmpty

(* C3 as claimed: whenever a required payer field is empty, submit()       *)
(* sends nothing, leaves charge state, the busy flag and the intervals     *)
(* alone, and raises an error-severity validation notice.                  *)
C3_EmptyFieldGetsValidationNotice ==
    [][(handleSubmitUpdate /\ SomeRequiredFieldEmpty) =>
         /\ sent' = NoRequest
         /\ UNCHANGED <<charge, isUpdating, chargeInFlight, intervals>>
         /\ notice' \in ValidationNotices]_vars

(* C3 as amended: whenever a required payer field is empty, submit() sends *)
(* nothing, leaves charge state, the busy flag and the intervals alone,    *)
(* and raises an error-severity notice: the validation notice when a user  *)
(* id is present, the login-required notice when none is.                  *)
C3_EmptyFieldRefused ==
    [][(handleSubmitUpdate /\ SomeRequiredFieldEmpty) =>
         /\ sent' = NoRequest
         /\ UNCHANGED <<charge, isUpdating, chargeInFlight, intervals>>
         /\ notice' \in (IF currentUserId = "" THEN {LoginNotice} ELSE ValidationNotices)]_vars

\* submit() has just refused a payer input that lacks only its last name.
C3_Witness ==
    /\ currentUserId # ""
    /\ payerEmail # "" /\ payerFirstName # "" /\ payerLastName = ""
    /\ payerIdentificationNumber # <<>>
    /\ notice \in ValidationNotices
    /\ sent = NoRequest

(* C4: when the identification number has no digit left after the         *)
(* non-digits are stripped, submit() raises an error notice and sends no   *)
(* charge request.                                                         *)
C4_DigitlessIdentificationRefused ==
    [][(handleSubmitUpdate /\ StripNonDigits(payerIdentificationNumber) = <<>>) =>
         /\ sent'.kind # "charge"
         /\ notice'.severity = "error"]_vars

(* C5: once the five-minute ceiling has stopped an interval, no further    *)
(* status fetch is issued for it, and no status response of it changes     *)
(* charge, payer or modal state any more.                                  *)
C5_NothingAfterCeiling ==
    [][\A i \in DOMAIN intervals :
         intervals[i].cleared = "ceiling" =>
           /\ intervals'[i].inflight <= intervals[i].inflight
           /\ AnswersFetchOf(i) => UNCHANGED <<charge, payer, showUpdateModal>>]_vars

(* C6: every poll interval that is started is eventually cancelled, when   *)
(* timer callbacks that are due are eventually run.                        *)
C6_EveryIntervalCancelled ==
    \A i \in 1..MaxCharges :
        (i \in DOMAIN intervals /\ Active(intervals[i]))
            ~> (i \in DOMAIN intervals /\ ~Active(intervals[i]))

\* An interval that only the ceiling stopped: no terminal status came.
C6_Witness == \E i \in DOMAIN intervals : intervals[i].cleared = "ceiling"

(* C7: after every transaction started has reached a terminal outcome      *)
(* (completed, failed or timed out), initiate() opens the input form with  *)
(* no charge state present.                                                *)
C7_InitiateAfterTerminalIsFresh ==
    [][(/\ handleUpdatePlatform
        /\ currentUserId # ""
        /\ chargeInFlight = 0
        /\ intervals # <<>>
        /\ ActiveIntervals = {}) =>
         /\ showUpdateModal'
         /\ ChargeAbsent'
         /\ FormVisible']_vars

(* C8: a status response saying 'completed' stops the interval, makes the  *)
(* four charge fields absent, clears all payer state, closes the modal and *)
(* raises a success notice.                                                *)
C8_CompletedClearsEverything ==
    [][\A i \in DOMAIN intervals : \A r \in PollResponses :
         (SaysCompleted(r) /\ pollTickResume(i, r)) =>
           /\ ~Active(intervals'[i])
           /\ ChargeAbsent'
           /\ PayerCleared'
           /\ ~showUpdateModal'
           /\ notice' = Notice(T("header.updateCompleted"), "success")]_vars

(* C9: a status response saying 'failed' stops the interval, makes the     *)
(* four charge fields absent, closes the modal, leaves the payer fields    *)
(* as they are, and raises an error notice whose text is the backend's     *)
(* errorMessage when it has one (a non-empty one) and the generic failure  *)
(* text otherwise.                                                         *)
C9_FailedStopsAndReports ==
    [][\A i \in DOMAIN intervals : \A r \in PollResponses :
         (SaysFailed(r) /\ pollTickResume(i, r)) =>
           /\ ~Active(intervals'[i])
           /\ ChargeAbsent'
           /\ ~showUpdateModal'
           /\ UNCHANGED payer
           /\ notice' = Notice(IF r.errorMessage \in {Absent, ""}
                                 THEN T("header.updateFailed")
                                 ELSE r.errorMessage, "error")]_vars

\* A displayed charge has just failed with the backend's message; the
\* payer fields are still filled in.
C9_Witness ==
    /\ \E i \in DOMAIN intervals : intervals[i].cleared = "failed"
    /\ notice = Notice("declined", "error")
    /\ ~showUpdateModal
    /\ ChargeAbsent
    /\ ~SomeRequiredFieldEmpty

(* C10: a status response that is rejected, not ok, unreadable, or says    *)
(* anything but 'completed' or 'failed' changes no component state, raises *)
(* no notice, and leaves the interval as it was: a running one keeps       *)
(* running.                                                                *)
C10_OtherResponsesChangeNothing ==
    [][\A i \in DOMAIN intervals : \A r \in PollResponses :
         (~SaysCompleted(r) /\ ~SaysFailed(r) /\ pollTickResume(i, r)) =>
           /\ UNCHANGED <<currentUserId, isUpdating, showUpdateModal, charge, payer,
                          chargeInFlight>>
           /\ notice' = NoNotice
           /\ sent' = NoRequest
           /\ intervals'[i].cleared = intervals[i].cleared
           /\ \A j \in DOMAIN intervals : j # i => intervals'[j] = intervals[j]]_vars

\* A tick's fetch was answered, the interval still runs with its charge on
\* display, and its next tick can fire.
C10_Witness ==
    \E i \in DOMAIN intervals :
        /\ Active(intervals[i])
        /\ intervals[i].ticked
        /\ intervals[i].inflight = 0
        /\ updateTransactionId = intervals[i].txId
        /\ showUpdateModal
        /\ ENABLED pollTick(i)

\* Charge responses by what the backend said.
SaysCreated(r) ==
    r.net = "answered" /\ r.status \in 200..299 /\ r.json = "object"

(* C11: the step that takes a successful charge response stores the four   *)
(* charge fields, appends exactly one interval, active and bound to the    *)
(* stored transaction id, leaves the older intervals as they are, raises   *)
(* the success notice and clears isUpdating; no other step adds an         *)
(* interval.                                                               *)
C11_SuccessStoresAndPollsOnce ==
    [][/\ \A r \in ChargeResponses :
            (SaysCreated(r) /\ handleSubmitUpdateResume(r)) =>
              /\ updateQrCode' = r.qrCode
              /\ updateQrCodeBase64' # Null
              /\ updateTransactionId' # Null
              /\ updateExpiresAt' # Null
              /\ Len(intervals') = Len(intervals) + 1
              /\ SubSeq(intervals', 1, Len(intervals)) = intervals
              /\ intervals'[Len(intervals')].txId = updateTransactionId'
              /\ Active(intervals'[Len(intervals')])
              /\ notice' = Notice(T("header.updateQrCodeGenerated"), "success")
              /\ ~isUpdating'
       /\ Len(intervals') # Len(intervals) =>
            \E r \in ChargeResponses : SaysCreated(r) /\ handleSubmitUpdateResume(r)]_vars

\* The second charge has just been created: its code is on display and the
\* newest interval polls for its transaction id.
C11_Witness ==
    /\ Len(intervals) = 2
    /\ intervals[2].txId = updateTransactionId
    /\ Active(intervals[2])
    /\ updateQrCode = "pix"
    /\ showUpdateModal
    /\ ~isUpdating
    /\ notice = Notice(T("header.updateQrCodeGenerated"), "success")

(* C12: the step that takes a charge response of status 503 raises an      *)
(* info-severity notice, leaves charge state, the intervals, the payer     *)
(* fields and the modal as they are, and clears isUpdating.                *)
C12_Status503IsInformational ==
    [][\A r \in ChargeResponses :
         (r.net = "answered" /\ r.status = 503 /\ handleSubmitUpdateResume(r)) =>
           /\ notice'.severity = "info"
           /\ UNCHANGED <<charge, intervals, payer, showUpdateModal>>
           /\ ~isUpdating']_vars

\* The charge request failed: the fetch threw, or was answered with a
\* status that is neither a success nor 503.
SaysRejected(r) ==
    \/ r.net = "rejected"
    \/ r.net = "answered" /\ r.status \notin 200..299 /\ r.status # 503

(* C13: the step that takes a failed charge request (the fetch threw, or   *)
(* the status is no success and not 503) leaves charge state, the          *)
(* intervals, the payer fields and the modal as they are, clears           *)
(* isUpdating, and raises an error notice whose text is the backend's      *)
(* error when it sent one (a non-empty one) and the generic failure text   *)
(* otherwise.                                                              *)
C13_RejectedReturnsToForm ==
    [][\A r \in ChargeResponses :
         (SaysRejected(r) /\ handleSubmitUpdateResume(r)) =>
           /\ UNCHANGED <<charge, intervals, payer, showUpdateModal>>
           /\ ~isUpdating'
           /\ chargeInFlight' < chargeInFlight
           /\ notice' = Notice(IF r.error \in {Absent, ""}
                                 THEN T("header.updateFailed")
                                 ELSE r.error, "error")]_vars

\* The backend has just rejected the charge with a message of its own; the
\* form is still on display, filled in, and can be submitted again.
C13_Witness ==
    /\ notice = Notice("denied", "error")
    /\ FormVisible
    /\ ChargeAbsent
    /\ ~SomeRequiredFieldEmpty
    /\ ~isUpdating
    /\ chargeInFlight = 0
    /\ intervals = <<>>

(* C14: a call of initiate() sends no request, starts and stops no         *)
(* interval, and leaves charge state, the payer fields and isUpdating as   *)
(* they are; with a user id it leaves the modal open.  So a call made      *)
(* while a code is stored only shows that code, and any number of calls    *)
(* in a row send nothing and start nothing.                                *)
C14_InitiateRequestsNothing ==
    [][handleUpdatePlatform =>
         /\ sent' = NoRequest
         /\ UNCHANGED <<charge, payer, intervals, chargeInFlight, isUpdating>>
         /\ currentUserId # "" => showUpdateModal']_vars

\* initiate() has just run while a code was stored: the code is on display
\* and its interval, which has not ticked yet, is the only one.
C14_Witness ==
    /\ Truthy(updateQrCode)
    /\ showUpdateModal
    /\ Len(intervals) = 1
    /\ ~intervals[1].ticked
    /\ updateTransactionId = intervals[1].txId
    /\ notice = NoNotice
    /\ sent = NoRequest

(* C15: closing the modal while a code is on display hides the modal,      *)
(* makes the four charge fields absent, and leaves the payer fields and    *)
(* every interval as they are; a running interval stops running only in    *)
(* a step that takes a 'completed' or 'failed' status response of it or    *)
(* that is its five-minute ceiling, and until then, with the modal closed  *)
(* and no charge stored, its next tick can still fire.                     *)
C15_CloseResetsButKeepsPolling ==
    [][/\ (CloseModal /\ Truthy(updateQrCode)) =>
            /\ ~showUpdateModal'
            /\ ChargeAbsent'
            /\ UNCHANGED <<payer, intervals>>
       /\ \A i \in DOMAIN intervals :
            (Active(intervals[i]) /\ ~Active(intervals'[i])) =>
              \/ pollCeiling(i)
              \/ \E r \in PollResponses :
                   (SaysCompleted(r) \/ SaysFailed(r)) /\ pollTickResume(i, r)
       /\ \A i \in DOMAIN intervals :
            (/\ ~showUpdateModal
             /\ ChargeAbsent
             /\ Active(intervals[i])
             /\ intervals[i].inflight < MaxInflight) => ENABLED pollTick(i)]_vars

\* The code was closed away and its interval, the only one, has just sent
\* another status request; the payer fields are still filled in.
C15_Witness ==
    /\ ~showUpdateModal
    /\ ChargeAbsent
    /\ ~SomeRequiredFieldEmpty
    /\ Len(intervals) = 1
    /\ Active(intervals[1])
    /\ sent = [kind |-> "status", txId |-> intervals[1].txId, payer |-> NoPayer]

(* C16: with no user id, a call of initiate() and a call of submit() each  *)
(* raise the login-required error notice, send no request, and leave the   *)
(* modal, charge state, the payer fields, isUpdating and the intervals as  *)
(* they are.                                                               *)
C16_NoUserOnlyNotice ==
    [][(currentUserId = "" /\ (handleUpdatePlatform \/ handleSubmitUpdate)) =>
         /\ notice' = LoginNotice
         /\ sent' = NoRequest
         /\ UNCHANGED <<showUpdateModal, charge, payer, isUpdating,
                        chargeInFlight, intervals>>]_vars

\* A handler has just refused to run for want of a user id: nothing is
\* open, stored or pending.
C16_Witness ==
    /\ currentUserId = ""
    /\ notice = LoginNotice
    /\ ~showUpdateModal
    /\ ChargeAbsent
    /\ ~isUpdating
    /\ chargeInFlight = 0

\* The digits of s, in the order they have in s.
RECURSIVE DigitsInOrder(_)
DigitsInOrder(s) ==
    IF s = <<>> THEN <<>>
    ELSE (IF Head(s) \in {"0", "1", "2", "3", "4", "5", "6", "7", "8", "9"}
            THEN <<Head(s)>> ELSE <<>>) \o DigitsInOrder(Tail(s))

\* "000.000.000-00" and "00000000000", character by character.
CpfAsTyped ==
    <<"0", "0", "0", ".", "0", "0", "0", ".", "0", "0", "0", "-", "0", "0">>
CpfAsSent == <<"0", "0", "0", "0", "0", "0", "0", "0", "0", "0", "0">>

(* C17: every charge request carries the identification number entered,    *)
(* with each non-digit removed and the digits in their order, and the      *)
(* email, first name, last name and identification type as entered; the    *)
(* number "000.000.000-00" is stripped to "00000000000".                   *)
C17_NumberSentDigitsOnly ==
    [][/\ sent'.kind = "charge" =>
            /\ sent'.payer.number = DigitsInOrder(payerIdentificationNumber)
            /\ sent'.payer.email = payerEmail
            /\ sent'.payer.firstName = payerFirstName
            /\ sent'.payer.lastName = payerLastName
            /\ sent'.payer.type = payerIdentificationType
       /\ StripNonDigits(CpfAsTyped) = CpfAsSent]_vars

\* "1.2-" was entered for a CNPJ and the request just sent carries "12".
C17_Witness ==
    /\ payerIdentificationNumber = <<"1", ".", "2", "-">>
    /\ payerIdentificationType = "CNPJ"
    /\ sent.kind = "charge"
    /\ sent.payer.number = <<"1", "2">>
    /\ sent.payer.type = "CNPJ"

(* C18: while the charge of one transaction is stored, a 'completed' or    *)
(* 'failed' status response of the interval of another, older transaction  *)
(* leaves charge state, the modal and the payer fields as they are.        *)
C18_StaleTerminalChangesNothing ==
    [][\A i \in DOMAIN intervals : \A r \in PollResponses :
         (/\ SaysCompleted(r) \/ SaysFailed(r)
          /\ pollTickResume(i, r)
          /\ updateTransactionId \notin {Null, intervals[i].txId}) =>
           UNCHANGED <<charge, showUpdateModal, payer>>]_vars

(* C19: once an interval has taken a 'completed' or 'failed' status        *)
(* response, a further such response of the same interval, from a fetch    *)
(* that overlapped the first, raises no notice and leaves charge state,    *)
(* the modal and the payer fields as they are.                             *)
C19_TerminalHandledOnce ==
    [][\A i \in DOMAIN intervals : \A r \in PollResponses :
         (/\ SaysCompleted(r) \/ SaysFailed(r)
          /\ pollTickResume(i, r)
          /\ intervals[i].cleared \in {"completed", "failed"}) =>
           /\ notice' = NoNotice
           /\ UNCHANGED <<charge, showUpdateModal, payer>>]_vars

\* The four charge fields all hold a value, or all hold null.
ChargeAllPresent ==
    /\ updateQrCode # Null
    /\ updateQrCodeBase64 # Null
    /\ updateTransactionId # Null
    /\ updateExpiresAt # Null

(* C20: in every state the four charge fields are all present or all      *)
(* absent, and a completed status, a failed status and the closing of the  *)
(* modal each leave all four absent, whatever the charge response was,     *)
(* one with an empty QR text included.                                     *)
C20_ChargeFieldsTogether ==
    [][/\ ChargeAllPresent' \/ ChargeAbsent'
       /\ CloseModal => ChargeAbsent'
       /\ \A i \in DOMAIN intervals : \A r \in PollResponses :
            ((SaysCompleted(r) \/ SaysFailed(r)) /\ pollTickResume(i, r)) =>
              ChargeAbsent']_vars

====
